---------------------------- MODULE Spec2Model ----------------------------
(***************************************************************************)
(* Model of dave_packer.py: the packer and unpacker of Midnight Club 3     *)
(* .dat archives.                                                          *)
(*                                                                         *)
(* Bytes objects and strings are sequences of numbers (byte values, code   *)
(* points).  Paths use 7-bit characters only, for which the "ANSI" code    *)
(* page maps a character to the byte of the same value.                    *)
(*                                                                         *)
(* The file system is the abstract asset source / sink: the source is the  *)
(* list of (root, dirs, files) triples os.walk yields plus the contents of *)
(* the files; the sink is the set of directories and the files below the   *)
(* output directory, keyed by the path handed to os.makedirs / open.       *)
(***************************************************************************)
EXTENDS Integers, Sequences, FiniteSets, TLC

VARIABLES
    pc,               \* position of the program
    err,              \* "" or the exception that ended the run
    tree,             \* pack: the asset tree under assetPath
    sep,              \* pack: assetPath ends with a path separator
    compress,         \* pack: the compress argument
    archive,          \* the bytes of the archive file
    magic,            \* unpack: local magic (as bytes)
    numFiles,         \* unpack: local numFiles
    tocLength,        \* unpack: local tocLength
    stringTableLength,\* unpack: local stringTableLength
    fileEntries,      \* unpack: list of TOCEntry
    stringTable,      \* unpack: contents of the stringTable BytesIO
    prevName,         \* unpack: local prevName
    idx,              \* unpack: index of the entry the current for loop is at
    stPos,            \* unpack: position of the stringTable BytesIO
    temp,             \* unpack: local temp (packed variant)
    remainingBits,    \* unpack: local remainingBits
    lastValue,        \* unpack: local lastValue
    byte,             \* unpack: local byte (raw variant)
    rootExists,       \* sink: outputDirectory exists
    sinkDirs,         \* sink: directories created below (or outside) outputDirectory
    sinkFiles         \* sink: files written, path -> bytes

vars == <<pc, err, tree, sep, compress, archive, magic, numFiles, tocLength,
          stringTableLength, fileEntries, stringTable, prevName, idx, stPos,
          temp, remainingBits, lastValue, byte, rootExists, sinkDirs, sinkFiles>>

-----------------------------------------------------------------------------
(* Bytes and integers *)

BLOCK == 2048         \* 0x800, the default of Padding's pad parameter
HEADER == 2048        \* 0x800, where the table of contents starts

Min(a, b) == IF a < b THEN a ELSE b

Zeros(n) == [i \in 1..n |-> 0]         \* bytes(n)

\* file.seek(off); file.read(n): a read past the end is short
ReadAt(file, off, n) == SubSeq(file, off + 1, Min(off + n, Len(file)))

\* int.from_bytes(b, "little") for b of at most 4 bytes
FromLE(b) ==
    (IF Len(b) >= 1 THEN b[1] ELSE 0)
  + (IF Len(b) >= 2 THEN b[2] * 256 ELSE 0)
  + (IF Len(b) >= 3 THEN b[3] * 65536 ELSE 0)
  + (IF Len(b) >= 4 THEN b[4] * 16777216 ELSE 0)

\* struct.pack("<I", n), n < 2^32
LE32(n) == << n % 256, (n \div 256) % 256, (n \div 65536) % 256,
              (n \div 16777216) % 256 >>

\* s.replace(chr(a), chr(b))
Replace(s, a, b) == [i \in 1..Len(s) |-> IF s[i] = a THEN b ELSE s[i]]

SLASH == 47           \* "/"
BACKSLASH == 92       \* "\\"

Padding(num, pad, restOnly) ==
    IF restOnly
    THEN (IF num % pad = 0 THEN 0 ELSE pad - (num % pad))
    ELSE (IF num % pad = 0 THEN num ELSE num + pad - (num % pad))


-----------------------------------------------------------------------------
(* zlib.  Raw deflate as the library produces it (level -1, wbits -15) on    *)
(* the file contents the asset trees below hold: <<data, deflate stream>>.   *)

ZlibTable ==
    << << <<>>,                      <<3, 0>> >>,                \* b""
       << <<104, 105>>,              <<203, 200, 4, 0>> >>,      \* b"hi"
       << <<98, 121, 101>>,          <<75, 170, 76, 5, 0>> >>,   \* b"bye"
       << <<121, 111>>,              <<171, 204, 7, 0>> >>,      \* b"yo"
       << <<97, 97, 97, 97, 97>>,    <<75, 76, 4, 2, 0>> >> >>   \* b"aaaaa"

IsPrefix(p, s) == Len(p) <= Len(s) /\ SubSeq(s, 1, Len(p)) = p

\* compressor.compress(data) + compressor.flush()
Deflate(data) ==
    ZlibTable[CHOOSE k \in 1..Len(ZlibTable) : ZlibTable[k][1] = data][2]

\* zlib.decompress(data, wbits=-15): the stream ends at its final block, bytes
\* after it are ignored; anything that does not start with a complete stream
\* raises zlib.error
Inflate(data) ==
    IF \E k \in 1..Len(ZlibTable) : IsPrefix(ZlibTable[k][2], data)
    THEN [ok |-> TRUE,
          data |-> ZlibTable[CHOOSE k \in 1..Len(ZlibTable) :
                                 IsPrefix(ZlibTable[k][2], data)][1]]
    ELSE [ok |-> FALSE, data |-> <<>>]

-----------------------------------------------------------------------------
(* pack *)

DAVE == <<68, 65, 86, 69>>     \* "DAVE"
Dave == <<68, 97, 118, 101>>   \* "Dave"

\* root[len(assetPath):].replace("\\", "/") for the directory rel below
\* assetPath ("" for assetPath itself): os.walk joins assetPath and rel with a
\* separator unless assetPath already ends with one
WalkRoot(rel, s) ==
    IF rel = <<>> THEN <<>>
    ELSE IF s THEN rel ELSE <<SLASH>> \o rel

DirEntry(root, dir) ==
    IF root # <<>> THEN root \o <<SLASH>> \o dir \o <<SLASH>>
    ELSE dir \o <<SLASH>>

FileEntry(root, filepath) ==
    IF root # <<>> THEN root \o <<SLASH>> \o filepath
    ELSE Replace(Replace(filepath, BACKSLASH, SLASH), BACKSLASH, SLASH)

\* the for loop over os.walk: the paths in the order they are appended
RECURSIVE WalkPaths(_, _, _)
WalkPaths(walk, s, k) ==
    IF k > Len(walk) THEN <<>>
    ELSE LET root == WalkRoot(walk[k].root, s) IN
         [i \in 1..Len(walk[k].dirs) |-> DirEntry(root, walk[k].dirs[i])]
         \o [i \in 1..Len(walk[k].files) |-> FileEntry(root, walk[k].files[i])]
         \o WalkPaths(walk, s, k + 1)

\* a < b for str: the first differing code point decides, a proper prefix is less
StrLess(a, b) ==
    LET n == Min(Len(a), Len(b)) IN
    IF \A j \in 1..n : a[j] = b[j]
    THEN Len(a) < Len(b)
    ELSE LET k == CHOOSE k \in 1..n :
                      a[k] # b[k] /\ \A j \in 1..(k - 1) : a[j] = b[j]
         IN a[k] < b[k]

\* list.sort() of distinct paths
SortPaths(paths) ==
    [i \in 1..Len(paths) |->
        paths[CHOOSE k \in 1..Len(paths) :
                Cardinality({j \in 1..Len(paths) : StrLess(paths[j], paths[k])}) = i - 1]]

RECURSIVE SumLenPlus1(_, _)
SumLenPlus1(paths, k) ==       \* sum(len(path)+1 for path in stringTable)
    IF k > Len(paths) THEN 0 ELSE Len(paths[k]) + 1 + SumLenPlus1(paths, k + 1)

RECURSIVE JoinNul(_, _)
JoinNul(paths, k) ==           \* b"\x00".join(name.encode("ANSI") ...)
    IF k > Len(paths) THEN <<>>
    ELSE IF k = Len(paths) THEN paths[k]
    ELSE paths[k] \o <<0>> \o JoinNul(paths, k + 1)

EndsWithSlash(path) == Len(path) > 0 /\ path[Len(path)] = SLASH

\* lines 137-147 with "if compress:" one level out, so that it also runs for
\* a path ending in "/"
PackDataCompressAll(t, c, path) ==
    LET raw == IF EndsWithSlash(path) \/ path \notin DOMAIN t.data
               THEN <<>> ELSE t.data[path]
        data == IF c THEN Deflate(raw) ELSE raw
    IN [ok |-> EndsWithSlash(path) \/ path \in DOMAIN t.data,
        data |-> data,
        uncompressedSize |-> Len(raw), compressedSize |-> Len(data)]

\* lines 137-147: the payload and the two sizes of one path.  open() finds the
\* file when os.path.join(assetPath, path) names a file of the tree; a path with
\* a leading separator is absolute and names none.
PackData(t, c, path) ==
    IF ~EndsWithSlash(path)
    THEN IF path \notin DOMAIN t.data
         THEN [ok |-> FALSE, data |-> <<>>, uncompressedSize |-> 0, compressedSize |-> 0]
         ELSE LET raw == t.data[path]
                  data == IF c THEN Deflate(raw) ELSE raw
              IN [ok |-> TRUE, data |-> data,
                  uncompressedSize |-> Len(raw), compressedSize |-> Len(data)]
    ELSE [ok |-> TRUE, data |-> <<>>, uncompressedSize |-> 0, compressedSize |-> 0]

\* what one iteration writes to TOCBinary
TOCRecord(nameOffset, estimatedFileOffset, uncompressedSize, compressedSize) ==
    LE32(nameOffset) \o LE32(estimatedFileOffset)
    \o LE32(uncompressedSize) \o LE32(compressedSize)

\* the for loop of lines 136-153 from index k on, with the values of the locals
\* at its start; written: per entry, the position of filesBinary before its write
RECURSIVE PackLoop(_, _, _, _, _, _, _, _, _)
PackLoop(t, c, paths, k, nameOffset, estimatedFileOffset, TOCBinary, filesBinary, written) ==
    IF k > Len(paths)
    THEN [ok |-> TRUE, TOCBinary |-> TOCBinary, filesBinary |-> filesBinary,
          written |-> written]
    ELSE LET d == PackData(t, c, paths[k]) IN
         IF ~d.ok
         THEN [ok |-> FALSE, TOCBinary |-> <<>>, filesBinary |-> <<>>, written |-> <<>>]
         ELSE PackLoop(t, c, paths, k + 1,
                  nameOffset + Len(paths[k]) + 1,
                  estimatedFileOffset + Padding(Len(d.data), BLOCK, FALSE),
                  TOCBinary \o TOCRecord(nameOffset, estimatedFileOffset,
                                         d.uncompressedSize, d.compressedSize),
                  filesBinary \o d.data \o Zeros(Padding(Len(d.data), BLOCK, TRUE)),
                  Append(written, Len(filesBinary)))

\* pack(assetPath, outputPath, compress): the locals when the output is written
PackLocals(t, s, c) ==
    LET paths == SortPaths(WalkPaths(t.walk, s, 1))
        estimatedTOCSize == Padding(Len(paths) * 16, BLOCK, FALSE)
        estimatedStringTableSize == Padding(SumLenPlus1(paths, 1), BLOCK, FALSE)
        loop == PackLoop(t, c, paths, 1, 0,
                         HEADER + estimatedTOCSize + estimatedStringTableSize,
                         <<>>, <<>>, <<>>)
    IN [ok |-> loop.ok,
        stringTable |-> paths,
        Header |-> DAVE \o LE32(Len(paths)) \o LE32(estimatedTOCSize)
                   \o LE32(estimatedStringTableSize) \o Zeros(2032),
        TOCBinary |-> loop.TOCBinary,
        stringTableBinary |-> JoinNul(paths, 1),
        filesBinary |-> loop.filesBinary,
        written |-> loop.written]

\* lines 158-169: the four writes to the output file
TOCWritten(p) ==
    p.TOCBinary \o Zeros(Padding(Len(p.TOCBinary), BLOCK, TRUE))

StringTableWritten(p) ==
    p.stringTableBinary \o Zeros(Padding(Len(p.stringTableBinary), BLOCK, TRUE))

PackOutput(p) ==
    p.Header \o TOCWritten(p) \o StringTableWritten(p) \o p.filesBinary


-----------------------------------------------------------------------------
(* TOCEntry *)

\* TOCEntry(file) with the file at position pos
TOCEntry(file, pos) ==
    [nameOffset       |-> FromLE(ReadAt(file, pos, 4)),
     fileOffset       |-> FromLE(ReadAt(file, pos + 4, 4)),
     uncompressedSize |-> FromLE(ReadAt(file, pos + 8, 4)),
     compressedSize   |-> FromLE(ReadAt(file, pos + 12, 4)),
     filepath         |-> <<>>]

isCompressed(entry) == entry.uncompressedSize # entry.compressedSize

\* "/".join(filepath.split("/")[:-1]): the path up to its last "/"
getDir(entry) ==
    LET S == {i \in 1..Len(entry.filepath) : entry.filepath[i] = SLASH} IN
    IF S = {} THEN <<>>
    ELSE SubSeq(entry.filepath, 1, (CHOOSE m \in S : \A j \in S : j <= m) - 1)

isDir(entry) == EndsWithSlash(entry.filepath)

-----------------------------------------------------------------------------
(* unpack: the names *)

BASE64CHARSET ==
    << 0, 32, 35, 36, 40, 41, 45, 46, 47, 63,
       48, 49, 50, 51, 52, 53, 54, 55, 56, 57, 95,
       97, 98, 99, 100, 101, 102, 103, 104, 105, 106, 107, 108, 109,
       110, 111, 112, 113, 114, 115, 116, 117, 118, 119, 120, 121, 122, 126 >>

Pow2(n) == 2 ^ n

RECURSIVE BitAnd(_, _)
BitAnd(a, b) ==                 \* a & b
    IF a = 0 \/ b = 0 THEN 0
    ELSE (a % 2) * (b % 2) + 2 * BitAnd(a \div 2, b \div 2)

RECURSIVE BitOr(_, _)
BitOr(a, b) ==                  \* a | b
    IF a = 0 THEN b
    ELSE IF b = 0 THEN a
    ELSE (IF a % 2 = 1 \/ b % 2 = 1 THEN 1 ELSE 0) + 2 * BitOr(a \div 2, b \div 2)

\* stringTable.read(1) at position pos: <<>> at or past the end
Read1(st, pos) == IF pos < Len(st) THEN <<st[pos + 1]>> ELSE <<>>

\* line 66
PackedValue(st, pos, rb) ==
    IF rb # 6 THEN FromLE(Read1(st, pos)) ELSE 0

\* line 67 with the carry shifted down by 6 - remainingBits
PackedGroupCarry6(value, rb, last) ==
    BitOr(BitAnd(value, Pow2(6 - rb) - 1) * Pow2(rb),
          IF rb = 6 THEN last ELSE last \div Pow2(6 - rb))

\* line 67: the group appended to temp
PackedGroup(value, rb, last) ==
    BitOr(BitAnd(value, Pow2(6 - rb) - 1) * Pow2(rb), last \div Pow2(8 - rb))

\* line 68
NextRemainingBits(rb) == IF rb = 6 THEN 0 ELSE 8 - (6 - rb)

\* one iteration of the while loop of lines 65-71 on the locals
\* s = [temp, remainingBits, lastValue, pos]
PackedStep(st, s) ==
    LET value == PackedValue(st, s.pos, s.remainingBits) IN
    [temp          |-> Append(s.temp, PackedGroup(value, s.remainingBits, s.lastValue)),
     remainingBits |-> NextRemainingBits(s.remainingBits),
     lastValue     |-> value,
     pos           |-> IF s.remainingBits # 6 /\ s.pos < Len(st) THEN s.pos + 1 ELSE s.pos]

\* lines 60-71: the loop from the locals s to its break
RECURSIVE PackedRun(_, _)
PackedRun(st, s) ==
    LET n == PackedStep(st, s) IN
    IF n.temp[Len(n.temp)] = 0 THEN n ELSE PackedRun(st, n)

PackedStart(nameOffset) ==
    [temp |-> <<>>, remainingBits |-> 0, lastValue |-> 0, pos |-> nameOffset]

\* "".join(BASE64CHARSET[char] for char in groups if char < 48)
RECURSIVE Literal(_)
Literal(groups) ==
    IF groups = <<>> THEN <<>>
    ELSE (IF groups[1] < 48 THEN <<BASE64CHARSET[groups[1] + 1]>> ELSE <<>>)
         \o Literal(Tail(groups))

\* s[:n] as Python slices: a negative n counts from the end
SliceTo(s, n) ==
    IF n >= 0 THEN SubSeq(s, 1, Min(n, Len(s)))
    ELSE SubSeq(s, 1, Len(s) + n)

\* (temp[0]-0x38) + ((temp[1]-0x20) << 3)
PrefixLength(t) == (t[1] - 56) + ((t[2] - 32) * 8)

\* lines 73-76: the path of an entry from temp and prevName
PackedPath(t, prev) ==
    IF t[1] < 56
    THEN Literal(SubSeq(t, 1, Len(t) - 1))
    ELSE SliceTo(prev, PrefixLength(t)) \o Literal(SubSeq(t, 3, Len(t) - 1))

\* the while loop of lines 84-88 breaks only on reading a zero byte: read(1)
\* returns b"" at the end, which is not b"\x00"
RawTerminates(st, off) == ~(\A p \in off..(Len(st) - 1) : st[p + 1] # 0)

\* the filepath the loop has built at its break: the bytes from off up to the
\* first zero byte
RawName(st, off) ==
    SubSeq(st, off + 1,
           CHOOSE p \in off..(Len(st) - 1) :
               st[p + 1] = 0 /\ \A q \in off..(p - 1) : st[q + 1] # 0)

-----------------------------------------------------------------------------
(* unpack: the sink.  A path below outputDirectory is kept as the relative   *)
(* path that os.path.join appends to it, <<>> being outputDirectory itself;  *)
(* a path with a leading separator replaces outputDirectory in the join and  *)
(* keeps its leading separator.                                              *)

\* os.path.join(outputDirectory, p).replace("/", "\\")
SinkPath(p) == Replace(p, SLASH, BACKSLASH)

\* os.path.exists
Exists(k, root, dirs, files) ==
    IF k = <<>> THEN root ELSE k \in dirs \/ k \in DOMAIN files

\* the directories os.makedirs(k) makes sure of: k and the paths leading to it
Ancestors(k) ==
    {SubSeq(k, 1, i - 1) : i \in {j \in 2..Len(k) : k[j] = BACKSLASH}}
    \cup (IF k = <<>> THEN {} ELSE {k})

\* os.makedirs(k, exist_ok=True) raises when a file is in the way
MakedirsFails(k, files) == \E a \in Ancestors(k) : a \in DOMAIN files

\* open(k, "wb") raises for a directory and below a file
OpenFails(k, parent, dirs, files) ==
    k = <<>> \/ k \in dirs \/ parent \in DOMAIN files


-----------------------------------------------------------------------------
(* The inputs: asset trees and archives not written by pack *)

NameOf(n) == [i \in 1..n |-> 97]        \* "aa...a", n characters

a_txt == <<97, 46, 116, 120, 116>>      \* "a.txt"
b_txt == <<98, 46, 116, 120, 116>>      \* "b.txt"
sub   == <<115, 117, 98>>               \* "sub"
hi    == <<104, 105>>                   \* b"hi"
bye   == <<98, 121, 101>>               \* b"bye"
yo    == <<121, 111>>                   \* b"yo"
aaaaa == <<97, 97, 97, 97, 97>>         \* b"aaaaa"

Walk(root, dirs, files) == [root |-> root, dirs |-> dirs, files |-> files]

\* an empty directory
TreeEmpty ==
    [walk |-> << Walk(<<>>, <<>>, <<>>) >>, data |-> <<>>]

\* {"a.txt": "hi", "sub/b.txt": "bye"}
TreeScenario ==
    [walk |-> << Walk(<<>>, <<sub>>, <<a_txt>>), Walk(sub, <<>>, <<b_txt>>) >>,
     data |-> (a_txt :> hi) @@ ((sub \o <<SLASH>> \o b_txt) :> bye)]

\* {"e": "", "f": "aaaaa", "d/": {}}
TreeSmall ==
    [walk |-> << Walk(<<>>, << <<100>> >>, << <<101>>, <<102>> >>),
                 Walk(<<100>>, <<>>, <<>>) >>,
     data |-> (<<101>> :> <<>>) @@ (<<102>> :> aaaaa)]

\* {"aa...a": "hi", "b": "yo"}: the names joined by one zero byte are BLOCK bytes
TreeLong ==
    [walk |-> << Walk(<<>>, <<>>, << NameOf(BLOCK - 2), <<98>> >>) >>,
     data |-> (NameOf(BLOCK - 2) :> hi) @@ (<<98>> :> yo)]

\* {"aa...a/": {}, "b/": {}}: directories only, joined names of BLOCK bytes
TreeLongDirs ==
    [walk |-> << Walk(<<>>, << NameOf(BLOCK - 4), <<98>> >>, <<>>),
                 Walk(NameOf(BLOCK - 4), <<>>, <<>>),
                 Walk(<<98>>, <<>>, <<>>) >>,
     data |-> <<>>]

\* {"d/x/": {}}: a directory in a directory, no files
TreeNested ==
    [walk |-> << Walk(<<>>, << <<100>> >>, <<>>),
                 Walk(<<100>>, << <<120>> >>, <<>>),
                 Walk(<<100, 47, 120>>, <<>>, <<>>) >>,
     data |-> <<>>]

Trees == {TreeEmpty, TreeScenario, TreeSmall, TreeLong, TreeLongDirs, TreeNested}

\* no pack ran: the archive came from elsewhere
NoTree == [walk |-> <<>>, data |-> <<>>]

\* bit i (from 0) of the stream that holds the 6-bit groups g, least
\* significant bit first
StreamBitOf(g, i) ==
    IF i < 6 * Len(g) THEN (g[(i \div 6) + 1] \div Pow2(i % 6)) % 2 ELSE 0

\* the bytes of a packed name: the inverse of the reader's extraction
GroupsToBytes(g) ==
    [j \in 1..((6 * Len(g) + 7) \div 8) |->
          StreamBitOf(g, 8 * (j - 1))         + 2 * StreamBitOf(g, 8 * (j - 1) + 1)
        + 4 * StreamBitOf(g, 8 * (j - 1) + 2)  + 8 * StreamBitOf(g, 8 * (j - 1) + 3)
        + 16 * StreamBitOf(g, 8 * (j - 1) + 4) + 32 * StreamBitOf(g, 8 * (j - 1) + 5)
        + 64 * StreamBitOf(g, 8 * (j - 1) + 6) + 128 * StreamBitOf(g, 8 * (j - 1) + 7)]

\* an archive file: header, TOC records, string table and payload as given
ArchiveOf(tag, n, toc, st, payload) ==
    tag \o LE32(n) \o LE32(Len(toc)) \o LE32(Len(st)) \o Zeros(2032)
    \o toc \o st \o payload

\* "Dave": "ab" (literal) holding b"hi", "ac" (prefix 1 of "ab", then "c")
\* holding b"yo" deflated
ArchivePacked ==
    ArchiveOf(Dave, 2,
              TOCRecord(0, HEADER + 32 + 6, 2, 2)
              \o TOCRecord(3, HEADER + 32 + 6 + 2, 2, 4),
              GroupsToBytes(<<21, 22, 0>>) \o GroupsToBytes(<<57, 32, 23, 0>>),
              hi \o Deflate(yo))

\* a raw string table under a tag that is neither "Dave" nor "DAVE"
ArchiveBadMagic ==
    ArchiveOf(<<88, 65, 86, 69>>, 1, TOCRecord(0, HEADER + 16 + 2, 2, 2),
              <<102, 0>>, hi)

\* a raw archive with no entries under an unsupported tag
ArchiveBadMagicEmpty ==
    ArchiveOf(<<88, 65, 86, 69>>, 0, <<>>, <<>>, <<>>)

\* "DAVE": "f" holding garbage marked as compressed
ArchiveBadStream ==
    ArchiveOf(DAVE, 1, TOCRecord(0, HEADER + 16 + 2, 5, 2), <<102, 0>>, hi)

Archives == {ArchivePacked, ArchiveBadMagic, ArchiveBadMagicEmpty, ArchiveBadStream}

-----------------------------------------------------------------------------
(* The program *)

Init ==
    /\ \/ /\ tree \in Trees
          /\ sep \in BOOLEAN
          /\ compress \in BOOLEAN
          /\ archive = <<>>
          /\ pc = "pack"
       \/ /\ tree = NoTree
          /\ sep = TRUE
          /\ compress = FALSE
          /\ archive \in Archives
          /\ pc = "unpack"
    /\ rootExists \in BOOLEAN
    /\ err = ""
    /\ magic = <<>>
    /\ numFiles = 0
    /\ tocLength = 0
    /\ stringTableLength = 0
    /\ fileEntries = <<>>
    /\ stringTable = <<>>
    /\ prevName = <<>>
    /\ idx = 0
    /\ stPos = 0
    /\ temp = <<>>
    /\ remainingBits = 0
    /\ lastValue = 0
    /\ byte = <<>>
    /\ sinkDirs = {}
    /\ sinkFiles = <<>>

unpackLocals == <<magic, numFiles, tocLength, stringTableLength, fileEntries,
                  stringTable, prevName, idx>>
loopLocals == <<stPos, temp, remainingBits, lastValue, byte>>
sink == <<rootExists, sinkDirs, sinkFiles>>
inputs == <<tree, sep, compress>>

\* pack(assetPath, outputPath, compress), lines 114-169; the archive then goes
\* to unpack
Pack ==
    /\ pc = "pack"
    /\ LET p == PackLocals(tree, sep, compress) IN
       IF p.ok
       THEN /\ archive' = PackOutput(p)
            /\ pc' = "unpack"
            /\ err' = err
       ELSE /\ archive' = archive
            /\ pc' = "failed"
            /\ err' = "FileNotFoundError"
    /\ UNCHANGED <<inputs, unpackLocals, loopLocals, sink>>

\* unpack, lines 43-46
ReadHeader ==
    /\ pc = "unpack"
    /\ magic' = ReadAt(archive, 0, 4)
    /\ numFiles' = FromLE(ReadAt(archive, 4, 4))
    /\ tocLength' = FromLE(ReadAt(archive, 8, 4))
    /\ stringTableLength' = FromLE(ReadAt(archive, 12, 4))
    /\ pc' = "tables"
    /\ UNCHANGED <<err, inputs, archive, fileEntries, stringTable, prevName, idx,
                   loopLocals, sink>>

\* unpack, lines 48-54
ReadTables ==
    /\ pc = "tables"
    /\ fileEntries' = [i \in 1..numFiles |-> TOCEntry(archive, HEADER + 16 * (i - 1))]
    /\ stringTable' = ReadAt(archive, HEADER + tocLength, stringTableLength)
    /\ pc' = "names"
    /\ UNCHANGED <<err, inputs, archive, magic, numFiles, tocLength,
                   stringTableLength, prevName, idx, loopLocals, sink>>

\* lines 59-77 for one entry of the "Dave" variant
DecodePacked ==
    /\ pc = "names"
    /\ magic = Dave
    /\ idx < Len(fileEntries)
    /\ LET r == PackedRun(stringTable, PackedStart(fileEntries[idx + 1].nameOffset))
           path == PackedPath(r.temp, prevName)
       IN /\ fileEntries' = [fileEntries EXCEPT ![idx + 1].filepath = path]
          /\ prevName' = path
          /\ temp' = r.temp
          /\ remainingBits' = r.remainingBits
          /\ lastValue' = r.lastValue
          /\ stPos' = r.pos
    /\ idx' = idx + 1
    /\ UNCHANGED <<pc, err, inputs, archive, magic, numFiles, tocLength,
                   stringTableLength, stringTable, byte, sink>>

\* lines 81-88 for one entry of the "DAVE" variant, when its while loop breaks
DecodeRaw ==
    /\ pc = "names"
    /\ magic = DAVE
    /\ idx < Len(fileEntries)
    /\ RawTerminates(stringTable, fileEntries[idx + 1].nameOffset)
    /\ LET name == RawName(stringTable, fileEntries[idx + 1].nameOffset) IN
       /\ fileEntries' = [fileEntries EXCEPT ![idx + 1].filepath = name]
       /\ stPos' = fileEntries[idx + 1].nameOffset + Len(name) + 1
    /\ byte' = <<0>>
    /\ idx' = idx + 1
    /\ UNCHANGED <<pc, err, inputs, archive, magic, numFiles, tocLength,
                   stringTableLength, stringTable, prevName, temp, remainingBits,
                   lastValue, sink>>

\* lines 84-88 when no zero byte follows nameOffset: the while loop reads b""
\* for ever
RawSpin ==
    /\ pc = "names"
    /\ magic = DAVE
    /\ idx < Len(fileEntries)
    /\ ~RawTerminates(stringTable, fileEntries[idx + 1].nameOffset)
    /\ pc' = "spin"
    /\ UNCHANGED <<err, inputs, archive, unpackLocals, loopLocals, sink>>

\* the end of the for loop of line 59 or 81, or neither branch of lines 56, 79
NamesDone ==
    /\ pc = "names"
    /\ \/ magic \notin {Dave, DAVE}
       \/ idx = Len(fileEntries)
    /\ pc' = "extract"
    /\ idx' = 0
    /\ UNCHANGED <<err, inputs, archive, magic, numFiles, tocLength,
                   stringTableLength, fileEntries, stringTable, prevName,
                   loopLocals, sink>>


\* one iteration of the for loop of lines 90-111
ExtractEntry ==
    /\ pc = "extract"
    /\ idx < Len(fileEntries)
    /\ LET entry == fileEntries[idx + 1]
           filepath == SinkPath(entry.filepath)
           dirpath == SinkPath(getDir(entry))
           missing == ~Exists(dirpath, rootExists, sinkDirs, sinkFiles)
           dirs == IF missing THEN sinkDirs \cup Ancestors(dirpath) ELSE sinkDirs
           read == ReadAt(archive, entry.fileOffset, entry.compressedSize)
           out == IF isCompressed(entry) THEN Inflate(read)
                  ELSE [ok |-> TRUE, data |-> read]
       IN
       IF ~rootExists
       THEN /\ pc' = "failed"
            /\ err' = "Exception: Output directory does not exist"
            /\ UNCHANGED <<idx, sinkDirs, sinkFiles>>
       ELSE IF missing /\ MakedirsFails(dirpath, sinkFiles)
       THEN /\ pc' = "failed"
            /\ err' = "OSError"
            /\ UNCHANGED <<idx, sinkDirs, sinkFiles>>
       ELSE IF isDir(entry)
       THEN /\ sinkDirs' = dirs
            /\ idx' = idx + 1
            /\ UNCHANGED <<pc, err, sinkFiles>>
       ELSE IF OpenFails(filepath, dirpath, dirs, sinkFiles)
       THEN /\ sinkDirs' = dirs
            /\ pc' = "failed"
            /\ err' = "OSError"
            /\ UNCHANGED <<idx, sinkFiles>>
       ELSE IF ~out.ok
       THEN /\ sinkDirs' = dirs
            /\ sinkFiles' = (filepath :> <<>>) @@ sinkFiles
            /\ pc' = "failed"
            /\ err' = "zlib.error"
            /\ UNCHANGED idx
       ELSE /\ sinkDirs' = dirs
            /\ sinkFiles' = (filepath :> out.data) @@ sinkFiles
            /\ idx' = idx + 1
            /\ UNCHANGED <<pc, err>>
    /\ UNCHANGED <<inputs, archive, magic, numFiles, tocLength, stringTableLength,
                   fileEntries, stringTable, prevName, loopLocals, rootExists>>

\* the end of the for loop of line 90: unpack returns
ExtractDone ==
    /\ pc = "extract"
    /\ idx = Len(fileEntries)
    /\ pc' = "done"
    /\ UNCHANGED <<err, inputs, archive, unpackLocals, loopLocals, sink>>

Next ==
    \/ Pack
    \/ ReadHeader
    \/ ReadTables
    \/ DecodePacked
    \/ DecodeRaw
    \/ RawSpin
    \/ NamesDone
    \/ ExtractEntry
    \/ ExtractDone

Spec == Init /\ [][Next]_vars


-----------------------------------------------------------------------------
(* The name loops of unpack, iteration by iteration.  The program starts     *)
(* after line 54, on the tables of a small archive: a string table of at     *)
(* most MaxTable bytes and at most MaxEntries TOC records whose nameOffset   *)
(* lies in the table, at its end or past it.                                 *)

MaxTable == 3
MaxEntries == 2
TableBytes == {0, 4, 7, 255}

RECURSIVE SeqsUpTo(_, _)
SeqsUpTo(S, n) ==                \* the sequences over S of length at most n
    IF n = 0 THEN {<<>>}
    ELSE LET shorter == SeqsUpTo(S, n - 1) IN
         shorter \cup {Append(q, x) : q \in {r \in shorter : Len(r) = n - 1}, x \in S}

EntryAt(off) ==
    [nameOffset |-> off, fileOffset |-> 0, uncompressedSize |-> 0,
     compressedSize |-> 0, filepath |-> <<>>]

InitNames ==
    /\ magic \in {Dave, DAVE}
    /\ stringTable \in SeqsUpTo(TableBytes, MaxTable)
    /\ \E offs \in SeqsUpTo(0..(MaxTable + 1), MaxEntries) :
          /\ \A i \in 1..Len(offs) : offs[i] <= Len(stringTable) + 1
          /\ fileEntries = [i \in 1..Len(offs) |-> EntryAt(offs[i])]
          /\ numFiles = Len(offs)
    /\ tocLength = 16 * numFiles
    /\ stringTableLength = Len(stringTable)
    /\ pc = "names"
    /\ tree = NoTree
    /\ sep = TRUE
    /\ compress = FALSE
    /\ archive = <<>>
    /\ rootExists = TRUE
    /\ err = ""
    /\ prevName = <<>>
    /\ idx = 0
    /\ stPos = 0
    /\ temp = <<>>
    /\ remainingBits = 0
    /\ lastValue = 0
    /\ byte = <<>>
    /\ sinkDirs = {}
    /\ sinkFiles = <<>>

header == <<magic, numFiles, tocLength, stringTableLength>>

\* lines 59-63: the next entry of the "Dave" variant
EnterPacked ==
    /\ pc = "names"
    /\ magic = Dave
    /\ idx < Len(fileEntries)
    /\ temp' = <<>>
    /\ remainingBits' = 0
    /\ lastValue' = 0
    /\ stPos' = fileEntries[idx + 1].nameOffset
    /\ pc' = "packedLoop"
    /\ UNCHANGED <<err, inputs, archive, header, fileEntries, stringTable,
                   prevName, idx, byte, sink>>

\* lines 66-71: one iteration of the while loop
PackedIter ==
    /\ pc = "packedLoop"
    /\ LET n == PackedStep(stringTable,
                           [temp |-> temp, remainingBits |-> remainingBits,
                            lastValue |-> lastValue, pos |-> stPos])
       IN /\ temp' = n.temp
          /\ remainingBits' = n.remainingBits
          /\ lastValue' = n.lastValue
          /\ stPos' = n.pos
          /\ pc' = IF n.temp[Len(n.temp)] = 0 THEN "packedName" ELSE "packedLoop"
    /\ UNCHANGED <<err, inputs, archive, header, fileEntries, stringTable,
                   prevName, idx, byte, sink>>

\* lines 73-77
PackedName ==
    /\ pc = "packedName"
    /\ LET path == PackedPath(temp, prevName) IN
       /\ fileEntries' = [fileEntries EXCEPT ![idx + 1].filepath = path]
       /\ prevName' = path
    /\ idx' = idx + 1
    /\ pc' = "names"
    /\ UNCHANGED <<err, inputs, archive, header, stringTable, loopLocals, sink>>

\* lines 81-82: the next entry of the "DAVE" variant
EnterRaw ==
    /\ pc = "names"
    /\ magic = DAVE
    /\ idx < Len(fileEntries)
    /\ stPos' = fileEntries[idx + 1].nameOffset
    /\ pc' = "rawRead"
    /\ UNCHANGED <<err, inputs, archive, header, fileEntries, stringTable,
                   prevName, idx, temp, remainingBits, lastValue, byte, sink>>

\* line 85
RawRead ==
    /\ pc = "rawRead"
    /\ byte' = Read1(stringTable, stPos)
    /\ stPos' = IF stPos < Len(stringTable) THEN stPos + 1 ELSE stPos
    /\ pc' = "rawTest"
    /\ UNCHANGED <<err, inputs, archive, header, fileEntries, stringTable,
                   prevName, idx, temp, remainingBits, lastValue, sink>>

\* lines 86-88
RawTest ==
    /\ pc = "rawTest"
    /\ IF byte = <<0>>
       THEN /\ idx' = idx + 1
            /\ pc' = "names"
            /\ UNCHANGED fileEntries
       ELSE /\ fileEntries' = [fileEntries EXCEPT
                                  ![idx + 1].filepath = @ \o byte]
            /\ pc' = "rawRead"
            /\ UNCHANGED idx
    /\ UNCHANGED <<err, inputs, archive, header, stringTable, prevName,
                   loopLocals, sink>>

NextNames ==
    \/ EnterPacked
    \/ PackedIter
    \/ PackedName
    \/ EnterRaw
    \/ RawRead
    \/ RawTest
    \/ NamesDone

\* the interpreter runs the next statement as long as there is one
SpecNames == InitNames /\ [][NextNames]_vars /\ WF_vars(NextNames)


-----------------------------------------------------------------------------
(* Properties of pack followed by unpack (Spec) *)

\* the archive in the state was written by pack from the tree in the state
Packed == tree # NoTree /\ archive # <<>>

\* record i (from 1) of the table of contents of the archive
WrittenEntry(i) == TOCEntry(archive, HEADER + 16 * (i - 1))

DeclaredTOCLength == FromLE(ReadAt(archive, 8, 4))
DeclaredStringTableLength == FromLE(ReadAt(archive, 12, 4))

\* the files of the tree, as the sink names them
SourceFiles == {SinkPath(q) : q \in DOMAIN tree.data}

SinkEqualsSource ==
    /\ DOMAIN sinkFiles = SourceFiles
    /\ \A q \in DOMAIN tree.data : sinkFiles[SinkPath(q)] = tree.data[q]

\* C1: pack with compress=false, then unpack: when unpack returns, the sink
\* holds exactly the files of the tree, under the same relative paths and
\* with the same bytes.
RoundTripUncompressed ==
    (Packed /\ ~compress /\ pc = "done") => SinkEqualsSource

\* C2: pack with compress=true, then unpack: when unpack returns, every file
\* of the tree is in the sink with the same bytes, whatever the length of its
\* deflate stream.
RoundTripCompressed ==
    (Packed /\ compress /\ pc = "done") =>
        \A q \in DOMAIN tree.data :
            /\ SinkPath(q) \in DOMAIN sinkFiles
            /\ sinkFiles[SinkPath(q)] = tree.data[q]

\* C3: in the archive pack wrote, the TOC region and the string-table region
\* are as long as the header declares, and the fileOffset recorded for every
\* non-directory entry is the position in the file where its payload starts.
LayoutConsistent ==
    (Packed /\ pc = "unpack") =>
        LET p == PackLocals(tree, sep, compress) IN
        /\ Len(TOCWritten(p)) = DeclaredTOCLength
        /\ Len(StringTableWritten(p)) = DeclaredStringTableLength
        /\ \A i \in 1..Len(p.stringTable) :
              ~EndsWithSlash(p.stringTable[i]) =>
                  WrittenEntry(i).fileOffset =
                      Len(p.Header) + Len(TOCWritten(p))
                      + Len(StringTableWritten(p)) + p.written[i]

\* C4: in the string table pack wrote (the paths joined by one zero byte,
\* zero-padded to a multiple of 0x800), reading from the nameOffset of entry
\* i up to the next zero byte gives path i, for every i, the last included.
RawCodecRoundTrip ==
    (Packed /\ pc = "unpack") =>
        LET p == PackLocals(tree, sep, compress) IN
        \A i \in 1..Len(p.stringTable) :
            /\ RawTerminates(StringTableWritten(p), WrittenEntry(i).nameOffset)
            /\ RawName(StringTableWritten(p), WrittenEntry(i).nameOffset)
                   = p.stringTable[i]

\* unpack has read the four header fields of an archive
HeaderRead == archive # <<>> /\ pc \notin {"pack", "unpack"}

\* C5: once the tag read is neither "Dave" nor "DAVE", unpack has failed with
\* a format error, has read neither TOC records nor string table, and has
\* left the sink alone.
BadMagicFailsFirst ==
    (HeaderRead /\ magic \notin {Dave, DAVE}) =>
        /\ pc = "failed"
        /\ err = "FormatError"
        /\ fileEntries = <<>>
        /\ stringTable = <<>>
        /\ sinkDirs = {}
        /\ sinkFiles = <<>>

\* nameOffset accumulated over the paths before path i
RECURSIVE RunningNameOffset(_, _)
RunningNameOffset(paths, i) ==
    IF i = 1 THEN 0
    ELSE RunningNameOffset(paths, i - 1) + Len(paths[i - 1]) + 1

\* the padded sizes of the payloads recorded before entry i
RECURSIVE PayloadBefore(_)
PayloadBefore(i) ==
    IF i = 1 THEN 0
    ELSE PayloadBefore(i - 1)
         + Padding(WrittenEntry(i - 1).compressedSize, BLOCK, FALSE)

DirectoryRecordSizesZero(paths, i) ==
    /\ WrittenEntry(i).nameOffset = RunningNameOffset(paths, i)
    /\ WrittenEntry(i).uncompressedSize = 0
    /\ WrittenEntry(i).compressedSize = 0
    /\ i < Len(paths) => WrittenEntry(i + 1).fileOffset = WrittenEntry(i).fileOffset

\* the payload region is the padded payloads of the non-directory entries
PayloadOnlyFromFiles(paths) ==
    Len(archive) - HEADER - DeclaredTOCLength
        - Len(StringTableWritten(PackLocals(tree, sep, compress)))
    = PayloadBefore(Len(paths) + 1)

\* C6 as stated: the TOC record pack writes for a path ending in "/" has the
\* running nameOffset and zero fileOffset, uncompressedSize and
\* compressedSize, and the entry adds no bytes to the payload region.
DirectoryRecordAllZero ==
    (Packed /\ pc = "unpack") =>
        LET paths == PackLocals(tree, sep, compress).stringTable IN
        /\ \A i \in 1..Len(paths) :
              EndsWithSlash(paths[i]) =>
                  /\ DirectoryRecordSizesZero(paths, i)
                  /\ WrittenEntry(i).fileOffset = 0
        /\ PayloadOnlyFromFiles(paths)

\* C6 as amended: the TOC record pack writes for a path ending in "/" has the
\* running nameOffset, zero uncompressedSize and compressedSize, and as
\* fileOffset the running payload offset (0x800 + tocByteLength +
\* stringTableByteLength + the padded sizes of the payloads before it), which
\* is also the fileOffset of the next entry; the entry adds no bytes to the
\* payload region.
DirectoryRecordNoPayload ==
    (Packed /\ pc = "unpack") =>
        LET paths == PackLocals(tree, sep, compress).stringTable IN
        /\ \A i \in 1..Len(paths) :
              EndsWithSlash(paths[i]) =>
                  /\ DirectoryRecordSizesZero(paths, i)
                  /\ WrittenEntry(i).fileOffset =
                         HEADER + DeclaredTOCLength + DeclaredStringTableLength
                         + PayloadBefore(i)
        /\ PayloadOnlyFromFiles(paths)

\* pack has written an archive with a directory entry between two files
DirectoryRecordWritten ==
    /\ Packed
    /\ pc = "unpack"
    /\ compress
    /\ LET paths == PackLocals(tree, sep, compress).stringTable IN
       \E i \in 2..(Len(paths) - 1) :
           /\ EndsWithSlash(paths[i])
           /\ WrittenEntry(i - 1).compressedSize > 0
           /\ WrittenEntry(i + 1).compressedSize > 0

\* C7: with a well-formed archive and no destination root, unpack does not
\* return normally and leaves the sink alone, whatever the entry count.
MissingRootFails ==
    (HeaderRead /\ magic \in {Dave, DAVE} /\ ~rootExists) =>
        /\ pc # "done"
        /\ sinkDirs = {}
        /\ sinkFiles = <<>>


-----------------------------------------------------------------------------
(* Properties of the name loops (SpecNames) *)

\* bit j (from 0) of the bytes of the string table from offset off on, bit 0
\* of a byte being its least significant; past the end of the table the
\* reader gets zeros
StreamBit(st, off, j) ==
    IF off + (j \div 8) < Len(st)
    THEN (st[off + (j \div 8) + 1] \div Pow2(j % 8)) % 2
    ELSE 0

\* the value of stream bits [6k, 6k+6)
StreamGroup(st, off, k) ==
      StreamBit(st, off, 6 * k)
    + 2 * StreamBit(st, off, 6 * k + 1)
    + 4 * StreamBit(st, off, 6 * k + 2)
    + 8 * StreamBit(st, off, 6 * k + 3)
    + 16 * StreamBit(st, off, 6 * k + 4)
    + 32 * StreamBit(st, off, 6 * k + 5)

\* C8: in the packed reader, the k-th group emitted is the value of stream
\* bits [6k, 6k+6) of the bytes from nameOffset on (least significant bit
\* first); the carry count after n groups is 2 * (n mod 4), so that every
\* fourth group is made without a read and n groups have taken n - n div 4
\* reads; the loop goes on exactly while the groups are not 0.
GroupsAreStreamBits ==
    pc \in {"packedLoop", "packedName"} =>
        LET off == fileEntries[idx + 1].nameOffset
            n == Len(temp)
        IN /\ \A k \in 1..n : temp[k] = StreamGroup(stringTable, off, k - 1)
           /\ remainingBits = 2 * (n % 4)
           /\ stPos = IF off >= Len(stringTable) THEN off
                      ELSE Min(off + n - (n \div 4), Len(stringTable))
           /\ \A k \in 1..(n - 1) : temp[k] # 0
           /\ (pc = "packedName") = (n > 0 /\ temp[n] = 0)

\* the reader went through a whole cycle of the carry: four groups that are
\* not 0 out of three bytes, the fourth without a read, then the terminator
FourGroupsFromThreeBytes ==
    /\ pc = "packedName"
    /\ Len(temp) = 5
    /\ temp[4] # 0
    /\ stPos = fileEntries[idx + 1].nameOffset + 3

\* the characters of the symbols below 48, in order
AlphabetOf(symbols) ==
    LET Lit(x) == x < 48
        kept == SelectSeq(symbols, Lit)
    IN [i \in 1..Len(kept) |-> BASE64CHARSET[kept[i] + 1]]

\* the first n characters of s: all of s when n exceeds its length, none when
\* n is not positive
FirstChars(s, n) == SubSeq(s, 1, Min(n, Len(s)))

\* C9: the path of a packed entry, from the groups decoded for it (symbols:
\* the groups but the terminator) and the path of the entry before it: the
\* characters of the symbols when symbols[0] < 56, and otherwise the first L
\* characters of the previous path, L = (symbols[0] - 0x38) +
\* ((symbols[1] - 0x20) << 3), then the characters of symbols[2:]; where
\* symbols[1] is absent the group read in its place, the terminator, stands
\* for it.
PathIsPrefixFold ==
    (pc = "names" /\ magic = Dave /\ idx >= 1) =>
        LET symbols == SubSeq(temp, 1, Len(temp) - 1)
            prev == IF idx >= 2 THEN fileEntries[idx - 1].filepath ELSE <<>>
            L == (temp[1] - 56) + ((temp[2] - 32) * 8)
        IN fileEntries[idx].filepath =
               IF symbols = <<>> \/ symbols[1] < 56
               THEN AlphabetOf(symbols)
               ELSE FirstChars(prev, L)
                    \o AlphabetOf(SubSeq(symbols, 3, Len(symbols)))

\* C10: the name loop of every entry reaches its exit, in both variants.
NameLoopTerminates ==
    (pc \in {"packedLoop", "rawRead", "rawTest"}) ~> (pc \in {"packedName", "names"})


\* the half of C10 that is about the "Dave" variant: at the end of the table
\* the reader gets zeros, so a group of 0 comes up
PackedLoopTerminates == (pc = "packedLoop") ~> (pc = "packedName")


\* DecodePacked and DecodeRaw do in one step what the loops of SpecNames do
\* iteration by iteration
LoopsAgree ==
    /\ (pc = "names" /\ idx >= 1 /\ magic = DAVE) =>
          /\ RawTerminates(stringTable, fileEntries[idx].nameOffset)
          /\ fileEntries[idx].filepath
                 = RawName(stringTable, fileEntries[idx].nameOffset)
    /\ (pc = "names" /\ idx >= 1 /\ magic = Dave) =>
          LET r == PackedRun(stringTable, PackedStart(fileEntries[idx].nameOffset)) IN
          /\ r.temp = temp
          /\ r.pos = stPos
          /\ fileEntries[idx].filepath =
                 PackedPath(r.temp, IF idx >= 2 THEN fileEntries[idx - 1].filepath
                                    ELSE <<>>)

=============================================================================
